---------------------------- MODULE Spec2Model ----------------------------
(***************************************************************************)
(* A model of main.py, the MT5 real-time data server: the process-wide     *)
(* connected flag and the terminal link behind it, connect_mt5 with its    *)
(* fallback attempt, the lifespan, the HTTP handlers that read the         *)
(* terminal (/connect, /available-symbols, /history, /quote with           *)
(* is_market_open) and the /ws/realtime loop.                              *)
(*                                                                         *)
(* Threads.  FastAPI runs the synchronous handlers on a thread pool and    *)
(* the websocket loop's fetch through asyncio.to_thread, so the handlers   *)
(* and the fetches interleave.  One step of the model is one access to     *)
(* shared state: a read or a write of the connected flag, or the return of *)
(* a call to the terminal (a call is in progress from the step that issues *)
(* it to the step in which it returns; its effect is taken at the return). *)
(*                                                                         *)
(* Text values are sequences of one-character strings.  Prices, candles    *)
(* and the change percentage are not modelled.                             *)
(***************************************************************************)
EXTENDS Integers, Sequences, FiniteSets, TLC

\* ------------------------------------------------------------------ bounds

\* HTTP worker threads serving requests at once.
NumWorkers == 2
\* Websocket clients of /ws/realtime.
NumLoops == 1
\* Instruments in a snapshot drawn for the aggregator.
MaxSyms == 3

\* ------------------------------------------------------- program constants

SYMBOL_TRADE_MODE_DISABLED == 0
SYMBOL_TRADE_MODE_CLOSEONLY == 3
SYMBOL_TRADE_MODE_FULL == 4
TRADE_RETCODE_MARKET_CLOSED == 10018
TRADE_RETCODE_DONE == 0
\* The staleness threshold of both classifications, in seconds.
StaleSeconds == 600
\* RES_S_OK, what mt5.last_error() holds after a call that succeeded.
RES_S_OK == 1
\* Codes mt5.last_error() may hold after a failed initialize().
ErrCodes == {-6, -10005}

TIMEFRAMES ==
  {"M1", "M2", "M3", "M5", "M10", "M15", "M30", "H1", "H2", "H4", "D1", "W1", "MN1"}

\* ------------------------------------------------------------------- text

DQ == "\""
SQ == "'"
BS == "\\"
Whitespace == {" ", "\t"}

RECURSIVE LStrip(_, _)
LStrip(s, chars) ==
  IF s # <<>> /\ Head(s) \in chars THEN LStrip(Tail(s), chars) ELSE s

RECURSIVE RStrip(_, _)
RStrip(s, chars) ==
  IF s # <<>> /\ s[Len(s)] \in chars
  THEN RStrip(SubSeq(s, 1, Len(s) - 1), chars)
  ELSE s

\* str.strip(chars): the characters of chars removed from both ends.
StripChars(s, chars) == RStrip(LStrip(s, chars), chars)

\* str.strip(): surrounding whitespace removed.
Strip(s) == StripChars(s, Whitespace)

\* value.strip('"').strip("'")
Unquote(s) == StripChars(StripChars(s, {DQ}), {SQ})

\* str.split(sep) for a one-character separator: never an empty list.
RECURSIVE Split(_, _)
Split(s, sep) ==
  IF \E i \in 1..Len(s) : s[i] = sep
  THEN LET i == CHOOSE k \in 1..Len(s) :
                  s[k] = sep /\ \A j \in 1..(k - 1) : s[j] # sep
       IN  <<SubSeq(s, 1, i - 1)>> \o Split(SubSeq(s, i + 1, Len(s)), sep)
  ELSE <<s>>

Digits == {"0", "1", "2", "3", "4", "5", "6", "7", "8", "9"}

DigitValue(c) ==
  CASE c = "0" -> 0 [] c = "1" -> 1 [] c = "2" -> 2 [] c = "3" -> 3
    [] c = "4" -> 4 [] c = "5" -> 5 [] c = "6" -> 6 [] c = "7" -> 7
    [] c = "8" -> 8 [] c = "9" -> 9

\* Whether int(s) returns (it raises ValueError otherwise).
IsInt(s) == s # <<>> /\ \A i \in 1..Len(s) : s[i] \in Digits

RECURSIVE ToInt(_)
ToInt(s) ==
  IF s = <<>> THEN 0
  ELSE 10 * ToInt(SubSeq(s, 1, Len(s) - 1)) + DigitValue(s[Len(s)])

\* ------------------------------------------------------------------ state

VARIABLES
  connected,   \* the process-wide flag
  linkUp,      \* whether the MetaTrader5 package holds an initialized link
  lastError,   \* what mt5.last_error() returns
  env,         \* the environment: MT5_PATH, MT5_LOGIN, MT5_PASSWORD, MT5_SERVER
  symbols,     \* the terminal's instruments, as symbols_get returns them
  market,      \* the terminal's live state of the quoted symbol
  pc,          \* where each thread stands
  frame,       \* each thread's local variables
  resp,        \* each worker's last HTTP response
  ws           \* each websocket loop: position, client, fetched data

vars == <<connected, linkUp, lastError, env, symbols, market, pc, frame, resp, ws>>

\* Thread 0 runs the lifespan; threads 1..NumWorkers serve HTTP requests.
Main == 0
Workers == 1..NumWorkers
Threads == {Main} \cup Workers
Loops == 1..NumLoops


\* ------------------------------------------------------------ environment

\* An unset variable and an empty one are both the empty text: the code
\* tests them for truth only.
EnvSteady ==
  [path |-> <<"p">>, login |-> <<"4", "2">>, password |-> <<"s">>, server |-> <<"d">>]

EnvConfigs ==
  [path : {<<>>, <<" ">>, <<DQ, DQ>>, <<"p">>, <<DQ, "p", DQ>>},
   login : {<<>>, <<"4", "2">>, <<"x">>},
   password : {<<>>, <<SQ, "s", SQ>>},
   server : {<<>>, <<"d">>}]

\* path = os.getenv("MT5_PATH", "").strip().strip('"').strip("'")
CleanPath(e) == Unquote(Strip(e.path))

InitArgKeys(e) ==
  {k \in {"path", "login", "password", "server"} :
     \/ k = "path" /\ CleanPath(e) # <<>>
     \/ k = "login" /\ e.login # <<>> /\ IsInt(e.login)
     \/ k = "password" /\ e.password # <<>>
     \/ k = "server" /\ e.server # <<>>}

\* init_args as connect_mt5 builds it: the login is the integer int(login),
\* tagged to tell it from text.
InitArgs(e) ==
  [k \in InitArgKeys(e) |->
     CASE k = "path" -> CleanPath(e)
       [] k = "login" -> <<"int", ToInt(e.login)>>
       [] k = "password" -> Unquote(e.password)
       [] k = "server" -> Unquote(e.server)]

\* del init_args['path']
WithoutPath(args) == [k \in (DOMAIN args) \ {"path"} |-> args[k]]

\* ------------------------------------------------------- the terminal's data

Tick(t) == [ok |-> TRUE, time |-> t]
NoTick == [ok |-> FALSE, time |-> 0]
Info(mode) == [ok |-> TRUE, trade_mode |-> mode]
NoInfo == [ok |-> FALSE, trade_mode |-> 0]
Check(code) == [ok |-> TRUE, retcode |-> code]
NoCheck == [ok |-> FALSE, retcode |-> 0]

TradeModes ==
  {SYMBOL_TRADE_MODE_DISABLED, SYMBOL_TRADE_MODE_CLOSEONLY, SYMBOL_TRADE_MODE_FULL}

\* The state of the quoted symbol and of the reference symbols EURUSD,
\* BTCUSD, GBPUSD in the terminal.
MarketSteady ==
  [known |-> TRUE, info |-> Info(SYMBOL_TRADE_MODE_FULL), tick |-> Tick(2000),
   check |-> Check(TRADE_RETCODE_DONE),
   refs |-> <<Tick(2000), Tick(2000), Tick(2000)>>]

InfoValues == {NoInfo} \cup {Info(m) : m \in TradeModes}
TickValues == {NoTick, Tick(1300), Tick(2000)}
CheckValues == {NoCheck, Check(TRADE_RETCODE_MARKET_CLOSED), Check(TRADE_RETCODE_DONE)}
RefValues == {NoTick, Tick(0), Tick(2000)}

Markets ==
  [known : BOOLEAN, info : InfoValues, tick : TickValues, check : CheckValues,
   refs : [1..3 -> RefValues]]

\* What each call returns: nothing over a link that is not initialized.
SymbolSelect == linkUp /\ market.known
SymbolInfo == IF linkUp THEN market.info ELSE NoInfo
SymbolInfoTick == IF linkUp THEN market.tick ELSE NoTick
OrderCheck == IF linkUp THEN market.check ELSE NoCheck
RefTick(k) == IF linkUp THEN market.refs[k] ELSE NoTick

\* An instrument of the snapshot.
Instrument(name, path, time, mode) ==
  [name |-> name, path |-> path, time |-> time, trade_mode |-> mode]

SymbolsSteady ==
  << Instrument(<<"a">>, <<"F", BS, "x">>, 2000, SYMBOL_TRADE_MODE_FULL),
     Instrument(<<"b">>, <<"C">>, 1300, SYMBOL_TRADE_MODE_FULL) >>

\* ------------------------------------------------------------------ frames

\* A thread's locals.  error 0 stands for None.  attempts is the record of
\* the initialize() calls the running connect_mt5 has made.
NoFrame ==
  [args |-> <<>>, err |-> 0, ret |-> [ok |-> FALSE, error |-> 0], attempts |-> <<>>,
   tf |-> "", tick |-> NoTick, info |-> NoInfo, mtick |-> NoTick,
   check |-> NoCheck, refs |-> <<>>, open |-> FALSE]

NoResp == [op |-> "none", status |-> 0, body |-> 0]

Response(op, status, body) == [op |-> op, status |-> status, body |-> body]

Serving == pc[Main] = "serving"

\* ---------------------------------------------------------------- connect

\* connect_mt5, from its first statement to the first call it issues.
ConnectCall(t) ==
  /\ frame' = [frame EXCEPT ![t] = [NoFrame EXCEPT !.args = InitArgs(env)]]
  /\ pc' = [pc EXCEPT ![t] = IF connected THEN "c_shutdown" ELSE "c_init1"]

\* lifespan, startup: connect_mt5().
LifespanStartup ==
  /\ pc[Main] = "boot"
  /\ ConnectCall(Main)
  /\ UNCHANGED <<connected, linkUp, lastError, env, symbols, market, resp, ws>>

\* GET /connect.
ConnectEndpoint(w) ==
  /\ Serving
  /\ pc[w] = "idle"
  /\ ConnectCall(w)
  /\ resp' = [resp EXCEPT ![w] = NoResp]
  /\ UNCHANGED <<connected, linkUp, lastError, env, symbols, market, ws>>

\* mt5.shutdown() of connect_mt5 returns; initialize(**init_args) is issued.
ConnectShutdownReturn(t) ==
  /\ pc[t] = "c_shutdown"
  /\ linkUp' = FALSE
  /\ pc' = [pc EXCEPT ![t] = "c_init1"]
  /\ UNCHANGED <<connected, lastError, env, symbols, market, frame, resp, ws>>

\* mt5.initialize(**init_args) returns, the first or the fallback attempt.
\* A failed attempt over a link another thread initialized may or may not
\* leave that link standing.
InitializeReturn(t) ==
  /\ pc[t] \in {"c_init1", "c_init2"}
  /\ \E ok \in BOOLEAN, e \in ErrCodes, kept \in {linkUp, FALSE} :
       IF ok
       THEN /\ linkUp' = TRUE
            /\ lastError' = RES_S_OK
            /\ frame' = [frame EXCEPT ![t].attempts =
                 Append(@, [args |-> frame[t].args, ok |-> TRUE, error |-> RES_S_OK])]
            /\ pc' = [pc EXCEPT ![t] = "c_true"]
       ELSE /\ linkUp' = kept
            /\ lastError' = e
            /\ frame' = [frame EXCEPT ![t].attempts =
                 Append(@, [args |-> frame[t].args, ok |-> FALSE, error |-> e])]
            /\ pc' = [pc EXCEPT ![t] = IF pc[t] = "c_init1" THEN "c_err1" ELSE "c_err2"]
  /\ UNCHANGED <<connected, env, symbols, market, resp, ws>>

\* connect_mt5 without its fallback: the first failure is final.
LastErrorNoFallback(t) ==
  /\ pc[t] \in {"c_err1", "c_err2"}
  /\ frame' = [frame EXCEPT ![t].err = lastError]
  /\ pc' = [pc EXCEPT ![t] = "c_false"]
  /\ UNCHANGED <<connected, linkUp, lastError, env, symbols, market, resp, ws>>

\* err = mt5.last_error() returns.  After the first attempt, a path in
\* init_args is deleted and the fallback attempt is issued.
LastErrorReturn(t) ==
  /\ pc[t] \in {"c_err1", "c_err2"}
  /\ IF pc[t] = "c_err1" /\ "path" \in DOMAIN frame[t].args
     THEN /\ frame' = [frame EXCEPT ![t].err = lastError,
                                    ![t].args = WithoutPath(@)]
          /\ pc' = [pc EXCEPT ![t] = "c_init2"]
     ELSE /\ frame' = [frame EXCEPT ![t].err = lastError]
          /\ pc' = [pc EXCEPT ![t] = "c_false"]
  /\ UNCHANGED <<connected, linkUp, lastError, env, symbols, market, resp, ws>>

\* connected = True; return True, None
ConnectSucceed(t) ==
  /\ pc[t] = "c_true"
  /\ connected' = TRUE
  /\ frame' = [frame EXCEPT ![t].ret = [ok |-> TRUE, error |-> 0]]
  /\ pc' = [pc EXCEPT ![t] = "c_ret"]
  /\ UNCHANGED <<linkUp, lastError, env, symbols, market, resp, ws>>

\* connected = False; return False, err
ConnectFail(t) ==
  /\ pc[t] = "c_false"
  /\ connected' = FALSE
  /\ frame' = [frame EXCEPT ![t].ret = [ok |-> FALSE, error |-> frame[t].err]]
  /\ pc' = [pc EXCEPT ![t] = "c_ret"]
  /\ UNCHANGED <<linkUp, lastError, env, symbols, market, resp, ws>>

\* lifespan: connect_mt5() has returned (its result is dropped); yield.
LifespanYield ==
  /\ pc[Main] = "c_ret"
  /\ pc' = [pc EXCEPT ![Main] = "serving"]
  /\ frame' = [frame EXCEPT ![Main] = NoFrame]
  /\ UNCHANGED <<connected, linkUp, lastError, env, symbols, market, resp, ws>>

\* connect_endpoint: 200, or HTTPException(500) carrying the error.
ConnectRespond(w) ==
  /\ w \in Workers
  /\ pc[w] = "c_ret"
  /\ resp' = [resp EXCEPT ![w] =
       IF frame[w].ret.ok THEN Response("connect", 200, 0)
       ELSE Response("connect", 500, frame[w].ret.error)]
  /\ pc' = [pc EXCEPT ![w] = "idle"]
  /\ frame' = [frame EXCEPT ![w] = NoFrame]
  /\ UNCHANGED <<connected, linkUp, lastError, env, symbols, market, ws>>

\* lifespan, shutdown: uvicorn has drained the requests and the websockets.
LifespanShutdown ==
  /\ Serving
  /\ \A w \in Workers : pc[w] = "idle"
  /\ \A l \in Loops : ws[l].pc \in {"new", "refused", "clean", "failed"}
  /\ pc' = [pc EXCEPT ![Main] = "l_shutdown"]
  /\ UNCHANGED <<connected, linkUp, lastError, env, symbols, market, frame, resp, ws>>

\* mt5.shutdown() of the lifespan returns.
LifespanShutdownReturn ==
  /\ pc[Main] = "l_shutdown"
  /\ linkUp' = FALSE
  /\ pc' = [pc EXCEPT ![Main] = "stopped"]
  /\ UNCHANGED <<connected, lastError, env, symbols, market, frame, resp, ws>>

\* ------------------------------------------------------------- aggregator

Uncategorized == <<"U", "n", "c", "a", "t", "e", "g", "o", "r", "i", "z", "e", "d">>

\* The name filter without its strip(): only the empty name is dropped.
IsBlankNameUnstripped(name) == name = <<>>

\* not s.name or s.name.strip() == ""
IsBlankName(name) == name = <<>> \/ Strip(name) = <<>>

\* The category taken from the path's last segment instead of its first.
CategoryOfLastSegment(path) ==
  LET path_parts == Split(path, BS)
  IN  IF path_parts # <<>> THEN path_parts[Len(path_parts)] ELSE Uncategorized

\* path_parts = s.path.split('\\'); path_parts[0] if path_parts else "Uncategorized"
CategoryOf(path) ==
  LET path_parts == Split(path, BS)
  IN  IF path_parts # <<>> THEN path_parts[1] ELSE Uncategorized

RECURSIVE MaxOf(_)
MaxOf(S) ==
  LET x == CHOOSE y \in S : TRUE
  IN  IF S = {x} THEN x
      ELSE LET m == MaxOf(S \ {x}) IN IF x > m THEN x ELSE m

\* current_server_time: the greatest positive time of the snapshot, or 0.
CurrentServerTime(syms) ==
  LET valid_times == {syms[i].time : i \in {j \in DOMAIN syms : syms[j].time > 0}}
  IN  IF valid_times # {} THEN MaxOf(valid_times) ELSE 0

\* The list view's classification without its staleness override.
IsOpenCheapTradeModeOnly(s, current_server_time) ==
  s.trade_mode \notin {SYMBOL_TRADE_MODE_DISABLED, SYMBOL_TRADE_MODE_CLOSEONLY}

\* The list view's classification of one instrument.
IsOpenCheap(s, current_server_time) ==
  LET is_open == s.trade_mode \notin {SYMBOL_TRADE_MODE_DISABLED, SYMBOL_TRADE_MODE_CLOSEONLY}
  IN  IF is_open /\ current_server_time > 0 /\ s.time > 0
         /\ (current_server_time - s.time) > StaleSeconds
      THEN FALSE
      ELSE is_open

Row(s, current_server_time) ==
  [symbol |-> s.name, path |-> s.path,
   market_open |-> IsOpenCheap(s, current_server_time)]

\* grouped_symbols is a dict, which keeps the order of insertion: a sequence
\* of [category, rows].
IndexOfCategory(grouped, category) ==
  IF \E k \in DOMAIN grouped : grouped[k].category = category
  THEN CHOOSE k \in DOMAIN grouped : grouped[k].category = category
  ELSE 0

\* One pass of the loop over symbols.
AddSymbol(grouped, s, current_server_time) ==
  IF IsBlankName(s.name) THEN grouped
  ELSE LET category == CategoryOf(s.path)
           g == IF IndexOfCategory(grouped, category) = 0
                THEN Append(grouped, [category |-> category, rows |-> <<>>])
                ELSE grouped
           k == IndexOfCategory(g, category)
       IN  [g EXCEPT ![k].rows = Append(@, Row(s, current_server_time))]

RECURSIVE GroupSymbols(_, _, _)
GroupSymbols(syms, grouped, current_server_time) ==
  IF syms = <<>> THEN grouped
  ELSE GroupSymbols(Tail(syms), AddSymbol(grouped, Head(syms), current_server_time),
                    current_server_time)

RECURSIVE SumRows(_)
SumRows(grouped) ==
  IF grouped = <<>> THEN 0 ELSE Len(Head(grouped).rows) + SumRows(Tail(grouped))

\* The body get_available_symbols returns for a snapshot.
GroupedListing(syms) ==
  LET grouped == GroupSymbols(syms, <<>>, CurrentServerTime(syms))
  IN  [count |-> SumRows(grouped),
       categories |-> [k \in DOMAIN grouped |-> grouped[k].category],
       data |-> [k \in DOMAIN grouped |-> grouped[k].rows]]

\* ------------------------------------------------------ /available-symbols

\* The gate: 503 when the flag is false.
AvailableBegin(w) ==
  /\ Serving
  /\ pc[w] = "idle"
  /\ IF connected
     THEN /\ pc' = [pc EXCEPT ![w] = "a_gate"]
          /\ resp' = [resp EXCEPT ![w] = NoResp]
     ELSE /\ resp' = [resp EXCEPT ![w] = Response("available", 503, 0)]
          /\ UNCHANGED pc
  /\ UNCHANGED <<connected, linkUp, lastError, env, symbols, market, frame, ws>>

\* mt5.symbols_get(group="*") is issued.
AvailableIssue(w) ==
  /\ pc[w] = "a_gate"
  /\ pc' = [pc EXCEPT ![w] = "a_get"]
  /\ UNCHANGED <<connected, linkUp, lastError, env, symbols, market, frame, resp, ws>>

\* symbols_get returns: None over a link that is down or when the terminal
\* fails to answer, the snapshot otherwise.
AvailableReturn(w) ==
  /\ pc[w] = "a_get"
  /\ \E answered \in BOOLEAN :
       IF linkUp /\ answered
       THEN /\ resp' = [resp EXCEPT ![w] = Response("available", 200, GroupedListing(symbols))]
            /\ pc' = [pc EXCEPT ![w] = "idle"]
       ELSE /\ pc' = [pc EXCEPT ![w] = "a_err"]
            /\ UNCHANGED resp
  /\ UNCHANGED <<connected, linkUp, lastError, env, symbols, market, frame, ws>>

\* mt5.last_error() returns into the 500's detail.
AvailableError(w) ==
  /\ pc[w] = "a_err"
  /\ resp' = [resp EXCEPT ![w] = Response("available", 500, lastError)]
  /\ pc' = [pc EXCEPT ![w] = "idle"]
  /\ UNCHANGED <<connected, linkUp, lastError, env, symbols, market, frame, ws>>

\* ---------------------------------------------------------------- /history

\* The gate, then the timeframe's validation: 503, 400, or on to the terminal.
HistoryBegin(w) ==
  /\ Serving
  /\ pc[w] = "idle"
  /\ \E timeframe \in {"M1", "X1"} :
       IF ~connected
       THEN /\ resp' = [resp EXCEPT ![w] = Response("history", 503, 0)]
            /\ UNCHANGED <<pc, frame>>
       ELSE IF timeframe \notin TIMEFRAMES
       THEN /\ resp' = [resp EXCEPT ![w] = Response("history", 400, 0)]
            /\ UNCHANGED <<pc, frame>>
       ELSE /\ resp' = [resp EXCEPT ![w] = NoResp]
            /\ frame' = [frame EXCEPT ![w] = [NoFrame EXCEPT !.tf = timeframe]]
            /\ pc' = [pc EXCEPT ![w] = "h_gate"]
  /\ UNCHANGED <<connected, linkUp, lastError, env, symbols, market, ws>>

\* mt5.symbol_select(symbol, True) is issued.
HistoryIssue(w) ==
  /\ pc[w] = "h_gate"
  /\ pc' = [pc EXCEPT ![w] = "h_select"]
  /\ UNCHANGED <<connected, linkUp, lastError, env, symbols, market, frame, resp, ws>>

\* symbol_select returns: 404, or copy_rates_from_pos is issued.
HistorySelectReturn(w) ==
  /\ pc[w] = "h_select"
  /\ IF SymbolSelect
     THEN /\ pc' = [pc EXCEPT ![w] = "h_rates"]
          /\ UNCHANGED <<resp, frame>>
     ELSE /\ resp' = [resp EXCEPT ![w] = Response("history", 404, 0)]
          /\ pc' = [pc EXCEPT ![w] = "idle"]
          /\ frame' = [frame EXCEPT ![w] = NoFrame]
  /\ UNCHANGED <<connected, linkUp, lastError, env, symbols, market, ws>>

\* copy_rates_from_pos returns: 500 on None, the candles otherwise.
HistoryRatesReturn(w) ==
  /\ pc[w] = "h_rates"
  /\ \E answered \in BOOLEAN :
       resp' = [resp EXCEPT ![w] =
         IF linkUp /\ answered
         THEN Response("history", 200, frame[w].tf)
         ELSE Response("history", 500, 0)]
  /\ pc' = [pc EXCEPT ![w] = "idle"]
  /\ frame' = [frame EXCEPT ![w] = NoFrame]
  /\ UNCHANGED <<connected, linkUp, lastError, env, symbols, market, ws>>

\* ------------------------------------------------------------------ /quote

\* The gate of get_quote.
QuoteBegin(w) ==
  /\ Serving
  /\ pc[w] = "idle"
  /\ IF connected
     THEN /\ pc' = [pc EXCEPT ![w] = "q_gate"]
          /\ resp' = [resp EXCEPT ![w] = NoResp]
          /\ frame' = [frame EXCEPT ![w] = NoFrame]
     ELSE /\ resp' = [resp EXCEPT ![w] = Response("quote", 503, 0)]
          /\ UNCHANGED <<pc, frame>>
  /\ UNCHANGED <<connected, linkUp, lastError, env, symbols, market, ws>>

\* mt5.symbol_select(symbol, True) is issued.
QuoteIssue(w) ==
  /\ pc[w] = "q_gate"
  /\ pc' = [pc EXCEPT ![w] = "q_sel1"]
  /\ UNCHANGED <<connected, linkUp, lastError, env, symbols, market, frame, resp, ws>>

\* symbol_select returns (its result is not used); symbol_info_tick is issued.
QuoteSelectReturn(w) ==
  /\ pc[w] = "q_sel1"
  /\ pc' = [pc EXCEPT ![w] = "q_tick1"]
  /\ UNCHANGED <<connected, linkUp, lastError, env, symbols, market, frame, resp, ws>>

\* symbol_info_tick returns: on None the symbol is selected again, otherwise
\* the response is built, is_market_open(symbol) last.
QuoteTickReturn(w) ==
  /\ pc[w] = "q_tick1"
  /\ LET tick == SymbolInfoTick
     IN  IF tick.ok
         THEN /\ frame' = [frame EXCEPT ![w].tick = tick]
              /\ pc' = [pc EXCEPT ![w] = "m_gate"]
         ELSE /\ pc' = [pc EXCEPT ![w] = "q_sel2"]
              /\ UNCHANGED frame
  /\ UNCHANGED <<connected, linkUp, lastError, env, symbols, market, resp, ws>>

\* The second symbol_select returns: 404, or symbol_info_tick is issued again.
QuoteReselectReturn(w) ==
  /\ pc[w] = "q_sel2"
  /\ IF SymbolSelect
     THEN /\ pc' = [pc EXCEPT ![w] = "q_tick2"]
          /\ UNCHANGED resp
     ELSE /\ resp' = [resp EXCEPT ![w] = Response("quote", 404, 0)]
          /\ pc' = [pc EXCEPT ![w] = "idle"]
  /\ UNCHANGED <<connected, linkUp, lastError, env, symbols, market, frame, ws>>

\* The second symbol_info_tick returns: 500 on None.
QuoteRetickReturn(w) ==
  /\ pc[w] = "q_tick2"
  /\ LET tick == SymbolInfoTick
     IN  IF tick.ok
         THEN /\ frame' = [frame EXCEPT ![w].tick = tick]
              /\ pc' = [pc EXCEPT ![w] = "m_gate"]
              /\ UNCHANGED resp
         ELSE /\ resp' = [resp EXCEPT ![w] = Response("quote", 500, 0)]
              /\ pc' = [pc EXCEPT ![w] = "idle"]
              /\ UNCHANGED frame
  /\ UNCHANGED <<connected, linkUp, lastError, env, symbols, market, ws>>

\* is_market_open: if not connected: return False
MarketOpenGate(w) ==
  /\ pc[w] = "m_gate"
  /\ pc' = [pc EXCEPT ![w] = IF connected THEN "m_go" ELSE "m_ret"]
  /\ UNCHANGED <<connected, linkUp, lastError, env, symbols, market, frame, resp, ws>>

\* mt5.symbol_info(symbol) is issued.
MarketOpenIssue(w) ==
  /\ pc[w] = "m_go"
  /\ pc' = [pc EXCEPT ![w] = "m_info"]
  /\ UNCHANGED <<connected, linkUp, lastError, env, symbols, market, frame, resp, ws>>

\* symbol_info returns: False on None, else symbol_info_tick is issued.
MarketOpenInfoReturn(w) ==
  /\ pc[w] = "m_info"
  /\ LET info == SymbolInfo
     IN  /\ frame' = [frame EXCEPT ![w].info = info]
         /\ pc' = [pc EXCEPT ![w] = IF info.ok THEN "m_tick" ELSE "m_ret"]
  /\ UNCHANGED <<connected, linkUp, lastError, env, symbols, market, resp, ws>>

\* symbol_info_tick returns: False on None, else order_check is issued.
MarketOpenTickReturn(w) ==
  /\ pc[w] = "m_tick"
  /\ LET tick == SymbolInfoTick
     IN  /\ frame' = [frame EXCEPT ![w].mtick = tick]
         /\ pc' = [pc EXCEPT ![w] = IF tick.ok THEN "m_check" ELSE "m_ret"]
  /\ UNCHANGED <<connected, linkUp, lastError, env, symbols, market, resp, ws>>

\* order_check returns: False when it says the market is closed, else the
\* reference ticks are fetched.
MarketOpenCheckReturn(w) ==
  /\ pc[w] = "m_check"
  /\ LET result == OrderCheck
     IN  /\ frame' = [frame EXCEPT ![w].check = result]
         /\ pc' = [pc EXCEPT ![w] =
              IF result.ok /\ result.retcode = TRADE_RETCODE_MARKET_CLOSED
              THEN "m_ret" ELSE "m_ref"]
  /\ UNCHANGED <<connected, linkUp, lastError, env, symbols, market, resp, ws>>

\* Lines 76 to 89 of is_market_open, once ref_ticks is complete.
MarketOpenVerdict(info, tick, ref_ticks) ==
  LET ref_times == {ref_ticks[k].time :
                      k \in {j \in DOMAIN ref_ticks : ref_ticks[j].ok /\ ref_ticks[j].time > 0}}
  IN  IF ref_times # {} /\ (MaxOf(ref_times) - tick.time) > StaleSeconds
      THEN FALSE
      ELSE IF info.trade_mode = SYMBOL_TRADE_MODE_DISABLED
              \/ info.trade_mode = SYMBOL_TRADE_MODE_CLOSEONLY
      THEN FALSE
      ELSE TRUE

\* symbol_info_tick of the next reference symbol returns; after the third,
\* the staleness and trade-mode checks decide.
MarketOpenRefReturn(w) ==
  /\ pc[w] = "m_ref"
  /\ LET ref_ticks == Append(frame[w].refs, RefTick(Len(frame[w].refs) + 1))
     IN  IF Len(ref_ticks) < 3
         THEN /\ frame' = [frame EXCEPT ![w].refs = ref_ticks]
              /\ UNCHANGED pc
         ELSE /\ frame' = [frame EXCEPT ![w].refs = ref_ticks,
                    ![w].open = MarketOpenVerdict(frame[w].info, frame[w].mtick, ref_ticks)]
              /\ pc' = [pc EXCEPT ![w] = "m_ret"]
  /\ UNCHANGED <<connected, linkUp, lastError, env, symbols, market, resp, ws>>

\* is_market_open has returned: get_quote returns the tick and the verdict.
QuoteRespond(w) ==
  /\ pc[w] = "m_ret"
  /\ resp' = [resp EXCEPT ![w] =
       Response("quote", 200, [time |-> frame[w].tick.time, market_open |-> frame[w].open])]
  /\ pc' = [pc EXCEPT ![w] = "idle"]
  /\ frame' = [frame EXCEPT ![w] = NoFrame]
  /\ UNCHANGED <<connected, linkUp, lastError, env, symbols, market, ws>>

\* The terminal's state of the symbols moves, one field at a time, while a
\* handler has calls to the terminal ahead of it (a move at any other moment
\* is the same to every call as a move right after the next handler begins).
MarketChange ==
  /\ \E w \in Workers : pc[w] \notin {"idle", "m_ret"}
  /\ \/ \E v \in BOOLEAN : market' = [market EXCEPT !.known = v]
     \/ \E v \in InfoValues : market' = [market EXCEPT !.info = v]
     \/ \E v \in TickValues : market' = [market EXCEPT !.tick = v]
     \/ \E v \in CheckValues : market' = [market EXCEPT !.check = v]
     \/ \E k \in 1..3, v \in RefValues : market' = [market EXCEPT !.refs[k] = v]
  /\ UNCHANGED <<connected, linkUp, lastError, env, symbols, pc, frame, resp, ws>>

\* ------------------------------------------------------------ /ws/realtime

NewLoop ==
  [pc |-> "new", client |-> "open", data |-> [error |-> FALSE, count |-> 0, rows |-> <<>>],
   last |-> "none", closes |-> 0]

WsDone == {"refused", "clean", "failed"}

\* fetch_realtime_data's result for what symbols_get returned.
RealtimeData(got, syms) ==
  IF ~got THEN [error |-> TRUE, count |-> 0, rows |-> <<>>]
  ELSE LET results == [i \in DOMAIN syms |-> [symbol |-> syms[i].name, time |-> syms[i].time]]
       IN  [error |-> FALSE, count |-> Len(results), rows |-> results]

\* await websocket.accept(), then the gate: close(1000) when not connected.
WsAccept(l) ==
  /\ Serving
  /\ ws[l].pc = "new"
  /\ ws' = [ws EXCEPT ![l].pc = IF connected THEN "stream" ELSE "refused"]
  /\ UNCHANGED <<connected, linkUp, lastError, env, symbols, market, pc, frame, resp>>

\* asyncio.to_thread(fetch_realtime_data): symbols_get is issued.
WsDispatch(l) ==
  /\ ws[l].pc = "stream"
  /\ ws' = [ws EXCEPT ![l].pc = "fetch"]
  /\ UNCHANGED <<connected, linkUp, lastError, env, symbols, market, pc, frame, resp>>

\* symbols_get returns in the thread; fetch_realtime_data returns its dict.
WsFetchReturn(l) ==
  /\ ws[l].pc = "fetch"
  /\ \E answered \in BOOLEAN :
       ws' = [ws EXCEPT ![l].pc = "send",
                        ![l].data = RealtimeData(linkUp /\ answered, symbols)]
  /\ UNCHANGED <<connected, linkUp, lastError, env, symbols, market, pc, frame, resp>>

\* A loop that swallows a failed send and goes on to the next iteration.
WsSendResuming(l) ==
  /\ ws[l].pc = "send"
  /\ ws' = [ws EXCEPT ![l].pc = "sleep",
                      ![l].last = IF ws[l].client = "open"
                                  THEN (IF ws[l].data.error THEN "error" ELSE "data")
                                  ELSE @]
  /\ UNCHANGED <<connected, linkUp, lastError, env, symbols, market, pc, frame, resp>>

\* await websocket.send_json(data): the frame is delivered, or the send
\* raises because the client is gone: WebSocketDisconnect ends the loop,
\* any other exception ends it after one close(code=1011).
WsSend(l) ==
  /\ ws[l].pc = "send"
  /\ IF ws[l].client = "open"
     THEN ws' = [ws EXCEPT ![l].pc = "sleep",
                           ![l].last = IF ws[l].data.error THEN "error" ELSE "data"]
     ELSE \E raised \in {"WebSocketDisconnect", "Exception"} :
            ws' = [ws EXCEPT ![l].pc = IF raised = "WebSocketDisconnect" THEN "clean" ELSE "failed",
                             ![l].closes = IF raised = "WebSocketDisconnect" THEN @ ELSE @ + 1]
  /\ UNCHANGED <<connected, linkUp, lastError, env, symbols, market, pc, frame, resp>>

\* await asyncio.sleep(1) completes: the next iteration.
WsWake(l) ==
  /\ ws[l].pc = "sleep"
  /\ ws' = [ws EXCEPT ![l].pc = "stream"]
  /\ UNCHANGED <<connected, linkUp, lastError, env, symbols, market, pc, frame, resp>>

\* The client of an accepted websocket goes away.
WsClientGone(l) ==
  /\ ws[l].pc \in {"stream", "fetch", "send", "sleep"}
  /\ ws[l].client = "open"
  /\ ws' = [ws EXCEPT ![l].client = "gone"]
  /\ UNCHANGED <<connected, linkUp, lastError, env, symbols, market, pc, frame, resp>>

\* --------------------------------------------------------- specifications

\* The process as uvicorn starts it, over a given environment and terminal.
InitWith(envs, snapshots, markets) ==
  /\ connected = FALSE
  /\ linkUp = FALSE
  /\ lastError = RES_S_OK
  /\ env \in envs
  /\ symbols \in snapshots
  /\ market \in markets
  /\ pc = [t \in Threads |-> IF t = Main THEN "boot" ELSE "idle"]
  /\ frame = [t \in Threads |-> NoFrame]
  /\ resp = [w \in Workers |-> NoResp]
  /\ ws = [l \in Loops |-> NewLoop]

Init == InitWith({EnvSteady}, {SymbolsSteady}, {MarketSteady})

\* The steps of a connect_mt5 call in progress.
ConnectSteps(t) ==
  \/ ConnectShutdownReturn(t)
  \/ InitializeReturn(t)
  \/ LastErrorReturn(t)
  \/ ConnectSucceed(t)
  \/ ConnectFail(t)

\* The lifespan up to its yield: connect_mt5 over a link that was never up.
Startup ==
  \/ LifespanStartup
  \/ InitializeReturn(Main)
  \/ LastErrorReturn(Main)
  \/ ConnectSucceed(Main)
  \/ ConnectFail(Main)
  \/ LifespanYield

Connect(w) == ConnectEndpoint(w) \/ ConnectSteps(w) \/ ConnectRespond(w)

Available(w) ==
  AvailableBegin(w) \/ AvailableIssue(w) \/ AvailableReturn(w) \/ AvailableError(w)

History(w) ==
  HistoryBegin(w) \/ HistoryIssue(w) \/ HistorySelectReturn(w) \/ HistoryRatesReturn(w)

Quote(w) ==
  \/ QuoteBegin(w) \/ QuoteIssue(w) \/ QuoteSelectReturn(w) \/ QuoteTickReturn(w)
  \/ QuoteReselectReturn(w) \/ QuoteRetickReturn(w)
  \/ MarketOpenGate(w) \/ MarketOpenIssue(w) \/ MarketOpenInfoReturn(w)
  \/ MarketOpenTickReturn(w) \/ MarketOpenCheckReturn(w) \/ MarketOpenRefReturn(w)
  \/ QuoteRespond(w)

Realtime(l) ==
  \/ WsAccept(l) \/ WsDispatch(l) \/ WsFetchReturn(l) \/ WsSend(l) \/ WsWake(l)
  \/ WsClientGone(l)

\* The whole server over a steady terminal: the lifespan, the workers'
\* handlers and the websocket loops, interleaved.
Next ==
  \/ LifespanStartup
  \/ LifespanYield
  \/ LifespanShutdown
  \/ LifespanShutdownReturn
  \/ \E t \in Threads : ConnectSteps(t)
  \/ \E w \in Workers :
       \/ ConnectEndpoint(w) \/ ConnectRespond(w)
       \/ Available(w) \/ History(w) \/ Quote(w)
  \/ \E l \in Loops : Realtime(l)

Spec == Init /\ [][Next]_vars

\* connect_mt5 alone: the startup call, then /connect requests one at a
\* time, over every environment.
InitConnect == InitWith(EnvConfigs, {SymbolsSteady}, {MarketSteady})
NextConnect == LifespanStartup \/ LifespanYield \/ ConnectSteps(Main) \/ Connect(1)
SpecConnect == InitConnect /\ [][NextConnect]_vars

\* The websocket loops and their clients, with /connect requests beside them.
NextFeed == Startup \/ Connect(1) \/ \E l \in Loops : Realtime(l)
SpecFeed == Init /\ [][NextFeed]_vars

\* One /quote at a time while the terminal's state of the symbols moves.
InitQuote == InitWith({EnvSteady}, {SymbolsSteady}, Markets)
NextQuote == Startup \/ Quote(1) \/ MarketChange
SpecQuote == InitQuote /\ [][NextQuote]_vars

\* /available-symbols over every snapshot of names and paths.
AggNames == {<<>>, <<" ">>, <<"a">>}
AggPaths == {<<>>, <<"E">>, <<"F", BS, "x">>, <<"C", BS, "M", BS, "y">>}
AggInstruments ==
  {Instrument(n, p, 2000, SYMBOL_TRADE_MODE_FULL) : n \in AggNames, p \in AggPaths}
SnapshotsAgg == UNION {[1..n -> AggInstruments] : n \in 0..MaxSyms}
InitAgg == InitWith({EnvSteady}, SnapshotsAgg, {MarketSteady})
NextAgg == Startup \/ Available(1)
SpecAgg == InitAgg /\ [][NextAgg]_vars

\* /available-symbols over every snapshot of times and trade modes; the
\* i-th instrument is named by i letters.
CheapTimes == {0, 700, 800, 1400}
NameAt(i) == [j \in 1..i |-> "a"]
SnapshotCheap(n, f) ==
  [i \in 1..n |-> Instrument(NameAt(i), <<"F", BS, "x">>, f[i][1], f[i][2])]
InitCheap ==
  \E n \in 1..MaxSyms : \E f \in [1..n -> CheapTimes \X TradeModes] :
    InitWith({EnvSteady}, {SnapshotCheap(n, f)}, {MarketSteady})
SpecCheap == InitCheap /\ [][NextAgg]_vars

\* ------------------------------------------------------------------ claims

\* The positions in which a data operation's call to the terminal is in
\* progress (mt5.last_error() only reads the package's last error).
DataCallPcs ==
  {"a_get", "h_select", "h_rates", "q_sel1", "q_tick1", "q_sel2", "q_tick2",
   "m_info", "m_tick", "m_check", "m_ref"}

\* Worker w's step issues a call of a data operation.
IssuesDataCall(w) ==
  /\ pc'[w] \in DataCallPcs
  /\ \/ pc'[w] # pc[w]
     \/ Len(frame'[w].refs) \in {1, 2} /\ frame'[w].refs # frame[w].refs

\* Loop l's step issues its snapshot fetch.
IssuesFetch(l) == ws'[l].pc = "fetch" /\ ws[l].pc # "fetch"

\* C1: while the connected flag is false no data operation issues a call to
\* the terminal: no handler's call and no realtime loop's snapshot fetch.
NoCallWhileDisconnected ==
  [][((\E w \in Workers : IssuesDataCall(w)) \/ (\E l \in Loops : IssuesFetch(l)))
       => connected]_vars

\* The positions in which a snapshot fetch, a tick fetch, the trade-validation
\* probe, a connect or a disconnect is in progress on the link.
LinkCallPcs ==
  {"a_get", "q_tick1", "q_tick2", "m_tick", "m_ref", "m_check",
   "c_init1", "c_init2", "c_shutdown", "l_shutdown"}

CallsInProgress ==
  Cardinality({t \in Threads : pc[t] \in LinkCallPcs})
    + Cardinality({l \in Loops : ws[l].pc = "fetch"})

\* C2: calls against the shared terminal link are mutually exclusive: never
\* are two of them in progress at once.
LinkCallsExclusive == CallsInProgress <= 1

\* C3: a connect call makes at most two connection attempts, the first with
\* all the arguments; no attempt follows a successful one; a second attempt
\* is made exactly when the first failed and a path was given, with the path
\* removed and the other arguments unchanged; the call returns the last
\* attempt's outcome and, on failure, the last attempt's error code.
ConnectAttemptsContract ==
  \A t \in Threads :
    LET a == frame[t].attempts
        n == Len(a)
    IN  /\ n <= 2
        /\ \A i \in 1..(n - 1) : ~a[i].ok
        /\ n >= 1 => a[1].args = InitArgs(env)
        /\ n = 2 => /\ "path" \in DOMAIN a[1].args
                    /\ DOMAIN a[2].args = (DOMAIN a[1].args) \ {"path"}
                    /\ \A k \in DOMAIN a[2].args : a[2].args[k] = a[1].args[k]
        /\ pc[t] = "c_ret" =>
             /\ n >= 1
             /\ frame[t].ret.ok = a[n].ok
             /\ (~a[1].ok /\ CleanPath(env) # <<>>) => n = 2
             /\ (~a[1].ok /\ CleanPath(env) = <<>>) => n = 1
             /\ ~frame[t].ret.ok => frame[t].ret.error = a[n].error

\* A connect call has returned failure after its fallback attempt.
ConnectFellBackAndFailed ==
  \E t \in Threads :
    pc[t] = "c_ret" /\ Len(frame[t].attempts) = 2 /\ ~frame[t].ret.ok

\* C4: once the client of a realtime loop has disconnected, that loop issues
\* no further snapshot fetch.
NoFetchAfterClientGone ==
  [][\A l \in Loops : ws[l].client = "gone" => ~IssuesFetch(l)]_vars

\* A loop that has terminated stays as it is: no fetch, no frame.
LoopStaysDone(l) == ws[l].pc \in WsDone => ws'[l] = ws[l]

\* Loop l's step out of its send ends the loop with at most one close(1011).
EndsLoop(l) ==
  /\ ws'[l].pc \in {"clean", "failed"}
  /\ ws'[l].closes <= 1
  /\ ws'[l].last = ws[l].last

\* C5 as stated: a failed snapshot fetch (no symbol data) or a delivery that
\* raises ends the loop, with at most one error closure and nothing after it.
FailureEndsLoop ==
  [][\A l \in Loops :
       /\ LoopStaysDone(l)
       /\ (ws[l].pc = "send" /\ ws'[l].pc # "send"
             /\ (ws[l].data.error \/ ws[l].client = "gone")) => EndsLoop(l)]_vars

\* C5, amended: a delivery that raises ends the loop, with at most one error
\* closure and nothing after it; a failed snapshot fetch raises nothing: its
\* error payload is delivered as a frame and the loop goes on.
DeliveryFailureEndsLoop ==
  [][\A l \in Loops :
       /\ LoopStaysDone(l)
       /\ (ws[l].pc = "send" /\ ws'[l].pc # "send" /\ ws[l].client = "gone")
            => EndsLoop(l)
       /\ (ws[l].pc = "send" /\ ws'[l].pc # "send" /\ ws[l].client = "open"
             /\ ws[l].data.error)
            => ws'[l].pc = "sleep" /\ ws'[l].last = "error"]_vars

\* A loop delivered an error frame, went on, and ended on a delivery that
\* raised, after one close(1011).
LoopFailedAfterErrorFrame ==
  \E l \in Loops : ws[l].pc = "failed" /\ ws[l].closes = 1 /\ ws[l].last = "error"

\* C6: is_market_open returns True only when the instrument's info, its tick,
\* the trade-validation result and every reference tick were obtained.
ExpensiveFailSafe ==
  \A w \in Workers :
    (pc[w] = "m_ret" /\ frame[w].open) =>
      /\ frame[w].info.ok
      /\ frame[w].mtick.ok
      /\ frame[w].check.ok
      /\ \A k \in DOMAIN frame[w].refs : frame[w].refs[k].ok

\* C10: whenever no connect call is in progress, the connected flag is true
\* exactly when the terminal link is initialized.
FlagMatchesLink ==
  (\A t \in Threads : pc[t] \in {"boot", "serving", "idle", "l_shutdown", "stopped"}
     \/ pc[t] \in DataCallPcs \/ pc[t] \in {"a_gate", "a_err", "h_gate", "q_gate",
                                           "m_gate", "m_go", "m_ret"})
    => (connected <=> linkUp)

\* Worker w's last response is a grouped listing.
Listed(w) == resp[w].op = "available" /\ resp[w].status = 200

\* Every row of a grouped listing.
RowsOf(body) ==
  UNION {{body.data[k][j] : j \in DOMAIN body.data[k]} : k \in DOMAIN body.data}

\* In the snapshot, instrument i has time T - 700 and every other instrument,
\* of which there is one at least, has time T.
LagsBy700(syms, i, T) ==
  /\ Len(syms) >= 2
  /\ syms[i].time = T - 700
  /\ \A j \in (DOMAIN syms) \ {i} : syms[j].time = T

\* The listing holds instrument i of the snapshot as closed.
ListedClosed(body, syms, i) ==
  \E r \in RowsOf(body) : r.symbol = syms[i].name /\ ~r.market_open

\* C7 as stated: for every T and every trade mode, the one instrument with
\* time T - 700 among instruments with time T is listed closed.
StaleListedClosed ==
  \A w \in Workers : Listed(w) =>
    \A i \in DOMAIN symbols, T \in CheapTimes :
      LagsBy700(symbols, i, T) => ListedClosed(resp[w].body, symbols, i)

\* C7, amended: for every T above 700, so that the lagging instrument's own
\* time is positive, and every trade mode, the one instrument with time
\* T - 700 among instruments with time T is listed closed.
StaleListedClosedPositiveTime ==
  \A w \in Workers : Listed(w) =>
    \A i \in DOMAIN symbols, T \in CheapTimes :
      (T > 700 /\ LagsBy700(symbols, i, T)) => ListedClosed(resp[w].body, symbols, i)

\* A listing holds as closed an instrument whose trade mode is full and whose
\* positive time lags the others' by 700.
StaleFullModeListedClosed ==
  \E w \in Workers : Listed(w) /\
    \E i \in DOMAIN symbols, T \in CheapTimes :
      /\ T > 700
      /\ LagsBy700(symbols, i, T)
      /\ symbols[i].trade_mode = SYMBOL_TRADE_MODE_FULL
      /\ ListedClosed(resp[w].body, symbols, i)

\* A name that is empty or made of whitespace only.
Blank(name) == \A i \in DOMAIN name : name[i] \in Whitespace

HasDelimiter(path) == \E i \in DOMAIN path : path[i] = BS

\* The path up to its first delimiter, the whole path when it has none.
FirstSegment(path) ==
  IF HasDelimiter(path)
  THEN SubSeq(path, 1, (CHOOSE i \in DOMAIN path :
                          path[i] = BS /\ \A j \in 1..(i - 1) : path[j] # BS) - 1)
  ELSE path

\* The instruments of the snapshot whose name is not blank, in order.
Named(syms) == LET keep(s) == ~Blank(s.name) IN SelectSeq(syms, keep)

\* Those of them in a category, in order, as [symbol, path].
InCategory(syms, category) ==
  LET here(s) == FirstSegment(s.path) = category
      kept == SelectSeq(Named(syms), here)
  IN  [k \in DOMAIN kept |-> [symbol |-> kept[k].name, path |-> kept[k].path]]

NamesAndPaths(rows) ==
  [k \in DOMAIN rows |-> [symbol |-> rows[k].symbol, path |-> rows[k].path]]

\* The first place of a category among the named instruments.
FirstSeen(syms, category) ==
  CHOOSE i \in DOMAIN Named(syms) :
    /\ FirstSegment(Named(syms)[i].path) = category
    /\ \A j \in 1..(i - 1) : FirstSegment(Named(syms)[j].path) # category

\* C8: a blank-named instrument is in no category and creates none; every
\* other instrument is exactly once in the listing, in the category of its
\* path's first segment and in snapshot order there; count is the number of
\* instruments with a name; the categories are in first-seen order, each
\* once and none empty.
AggregationContract ==
  \A w \in Workers : Listed(w) =>
    LET body == resp[w].body
        cats == body.categories
    IN  /\ body.count = Len(Named(symbols))
        /\ DOMAIN body.data = DOMAIN cats
        /\ \A r \in RowsOf(body) : ~Blank(r.symbol)
        /\ \A k \in DOMAIN cats :
             /\ body.data[k] # <<>>
             /\ NamesAndPaths(body.data[k]) = InCategory(symbols, cats[k])
        /\ \A i \in DOMAIN Named(symbols) :
             \E k \in DOMAIN cats : cats[k] = FirstSegment(Named(symbols)[i].path)
        /\ \A k1, k2 \in DOMAIN cats :
             k1 < k2 => /\ cats[k1] # cats[k2]
                        /\ FirstSeen(symbols, cats[k1]) < FirstSeen(symbols, cats[k2])

\* A listing of a snapshot of three, one of them blank-named: count 2.
ListedTwoOfThree ==
  \E w \in Workers :
    /\ Listed(w)
    /\ Len(symbols) = 3
    /\ \E i \in DOMAIN symbols : Blank(symbols[i].name)
    /\ resp[w].body.count = 2

\* Every named instrument of the snapshot has a row in the listing.
Placed(body, syms) ==
  \A i \in DOMAIN Named(syms) :
    \E r \in RowsOf(body) :
      r.symbol = Named(syms)[i].name /\ r.path = Named(syms)[i].path

\* C9 as stated: an instrument whose path has no delimiter is placed in the
\* category "Uncategorized", any other in the category of its path's first
\* segment.
UncategorizedWithoutDelimiter ==
  \A w \in Workers : Listed(w) =>
    LET body == resp[w].body
    IN  /\ Placed(body, symbols)
        /\ \A k \in DOMAIN body.categories :
             \A j \in DOMAIN body.data[k] :
               LET path == body.data[k][j].path
               IN  body.categories[k] =
                     IF HasDelimiter(path) THEN FirstSegment(path) ELSE Uncategorized

\* C9, amended: an instrument whose path has no delimiter is placed in the
\* category named by its whole path (the empty name for an empty path), any
\* other in the category of its path's first segment.
WholePathWithoutDelimiter ==
  \A w \in Workers : Listed(w) =>
    LET body == resp[w].body
    IN  /\ Placed(body, symbols)
        /\ \A k \in DOMAIN body.categories :
             \A j \in DOMAIN body.data[k] :
               LET path == body.data[k][j].path
               IN  body.categories[k] =
                     IF HasDelimiter(path) THEN FirstSegment(path) ELSE path

\* A listing with a category named by a whole, delimiter-free path, next to
\* one named by a first segment.
ListedWholePathCategory ==
  \E w \in Workers :
    /\ Listed(w)
    /\ \E k \in DOMAIN resp[w].body.categories : resp[w].body.categories[k] = <<"E">>
    /\ \E k \in DOMAIN resp[w].body.categories : resp[w].body.categories[k] = <<"C">>
==========================================================================
